---- MODULE Spec2Model ----
(***************************************************************************)
(* The NFT marketplace component (src/src/components/MarketPlaceNFT.tsx):  *)
(* the scan effect that decodes the script outputs into listings, and the  *)
(* buyNFT handler that builds, signs and submits a purchase.               *)
(***************************************************************************)
EXTENDS Integers, Sequences, FiniteSets, TLC

(* ------------------------------ bounds --------------------------------- *)
\* buyNFT calls followed
MaxFlows == 2
\* starts of the scan effect with an initialised lucid
MaxScans == 1
\* outputs at the script address where purchases are followed
NumOutputs == 1
\* outputs at the script address where the scan alone is followed
ScanOutputs == 3
\* starts of the scan effect and buyNFT calls where overlapping scans are followed
RaceScans == 2
RaceFlows == 1

(* ------------------------- plutus data, datums ------------------------- *)
DInt(n) == [t |-> "int", i |-> n, b |-> ""]
DBytes(s) == [t |-> "bytes", i |-> 0, b |-> s]

\* a datum the seller side wrote for a listing: Constr [policyId, assetName, seller, price]
ListingDatum(seller, price) ==
    [kind |-> "constr",
     fields |-> <<DBytes("policy"), DBytes("asset"), DBytes(seller), DInt(price)>>]
\* an output without datum
NoDatum == [kind |-> "null", fields |-> <<>>]
\* a foreign datum: one field only
ForeignDatum == [kind |-> "constr", fields |-> <<DBytes("junk")>>]
\* a datum whose price field is not an integer
BadPriceDatum ==
    [kind |-> "constr",
     fields |-> <<DBytes("policy"), DBytes("asset"), DBytes("s1"), DBytes("100")>>]

Sellers == {"s1"}
\* what sits at the script address where purchases are followed
ListedDatums ==
    {ListingDatum(s, p) : s \in Sellers, p \in {0, 100}} \cup {ForeignDatum}
\* and where the scan alone is followed
DatumChoices ==
    ListedDatums \cup {ListingDatum("s1", -1), NoDatum, BadPriceDatum}

\* Data.from(datum, NFTMarketplaceDatum) returns normally
Decodes(d) ==
    /\ d.kind = "constr"
    /\ Len(d.fields) = 4
    /\ d.fields[1].t = "bytes"
    /\ d.fields[2].t = "bytes"
    /\ d.fields[3].t = "bytes"
    /\ d.fields[4].t = "int"
    /\ d.fields[4].i >= 0

\* the value Data.from returns when it returns
DataFrom(d) ==
    [policyId |-> d.fields[1].b, assetName |-> d.fields[2].b,
     seller |-> d.fields[3].b, price |-> d.fields[4].i]

(* ------------------------------ ledger -------------------------------- *)
Output(i, d) == [txHash |-> "h", outputIndex |-> i - 1, datum |-> d]
Ref(u) == <<u.txHash, u.outputIndex>>

\* getUtxo(): the outputs at the contract address that are unspent now
UnspentAt(us, sp) == SelectSeq(us, LAMBDA u : Ref(u) \notin sp)

(* ------------------------------- scan ---------------------------------- *)
\* lines 46-49: the output's fields and the decoded fields in one object
Listing(utxo) ==
    LET temp == DataFrom(utxo.datum)
    IN  [txHash |-> utxo.txHash, outputIndex |-> utxo.outputIndex,
         datum |-> utxo.datum, policyId |-> temp.policyId,
         assetName |-> temp.assetName, seller |-> temp.seller,
         price |-> temp.price]

\* the map callback without its try/catch: a throw of Data.from leaves it
TryDecode_NoCatch(utxo) ==
    IF Decodes(utxo.datum)
    THEN [tag |-> "ok", val |-> <<Listing(utxo)>>]
    ELSE [tag |-> "thrown", val |-> <<>>]

\* lines 40-54: the map callback; a throw of Data.from is caught and gives false
TryDecode(utxo) ==
    IF Decodes(utxo.datum)
    THEN [tag |-> "ok", val |-> <<Listing(utxo)>>]
    ELSE [tag |-> "caught", val |-> <<>>]

\* lines 39-54: scriptUTxOs.map(...)
MapDecode(us) == [k \in 1..Len(us) |-> TryDecode(us[k])]

\* an exception leaves the map callback
Escapes(mapped) == \E k \in 1..Len(mapped) : mapped[k].tag = "thrown"

\* line 55: filter(Boolean) drops the false entries
FilterBoolean(mapped) ==
    LET kept == SelectSeq(mapped, LAMBDA m : m.tag = "ok")
    IN  [k \in 1..Len(kept) |-> kept[k].val[1]]

(* ------------------------ building the purchase ------------------------ *)
\* line 71-72
markerAddress == <<"addr_test", "qr6f780g8wj7su0v6lr4pqp4w5l5947gcq45d60cl0xd2txkuxdtp7znxpl0kflxpt8z0eqauckttc7zk75gvu5s8dcqj250mt">>
\* line 77, 78
KeyHashToCredential(h) == [type |-> "Key", hash |-> h]
CredentialToAddress(c) == <<"addr_test", c.hash>>
\* line 69, line 80
getValidator == "marketplace-validator"
DataVoid == "void"

\* bigint division truncates towards zero
BigIntDiv(a, b) == IF a >= 0 THEN a \div b ELSE -((-a) \div b)

\* the seller paid the price less the marketplace's share
SellerLovelace_Net(price) == price * 10^6 - BigIntDiv(price * 1 * 10^6, 100)

\* the marketplace's share divided by 10n in place of 100n
MarketLovelace_Tenth(price) == BigIntDiv(price * 1 * 10^6, 10)

\* line 85: the lovelace of the seller's output
SellerLovelace(price) == price * 10^6
\* line 74: free
MarketLovelace(price) == BigIntDiv(price * 1 * 10^6, 100)

\* lines 83-91: the calls on the transaction builder
NewTx == [outputs |-> <<>>, inputs |-> <<>>, redeemer |-> "", validator |-> ""]
PayToAddress(t, addr, lovelace) ==
    [t EXCEPT !.outputs = Append(@, [address |-> addr, lovelace |-> lovelace])]
CollectFrom(t, us, redeemer) ==
    [t EXCEPT !.inputs = @ \o [k \in 1..Len(us) |-> Ref(us[k])],
              !.redeemer = redeemer]
AttachSpendingValidator(t, v) == [t EXCEPT !.validator = v]

\* the chain of builder calls without attachSpendingValidator
BuyTx_NoValidator(nft) ==
    LET free == MarketLovelace(nft.price)
        sellerAddress == CredentialToAddress(KeyHashToCredential(nft.seller))
        t1 == PayToAddress(NewTx, sellerAddress, SellerLovelace(nft.price))
        t2 == PayToAddress(t1, markerAddress, free)
    IN  CollectFrom(t2, <<nft>>, DataVoid)

\* lines 69-91: the transaction buyNFT hands to complete()
BuyTx(nft) ==
    LET validator == getValidator
        free == MarketLovelace(nft.price)
        sellerAddress == CredentialToAddress(KeyHashToCredential(nft.seller))
        redeemer == DataVoid
        t1 == PayToAddress(NewTx, sellerAddress, SellerLovelace(nft.price))
        t2 == PayToAddress(t1, markerAddress, free)
        t3 == CollectFrom(t2, <<nft>>, redeemer)
    IN  AttachSpendingValidator(t3, validator)

(* ------------------------------ ledger, 2 ------------------------------ *)
\* the references consumed by the transactions the ledger accepted
RECURSIVE SpentBy(_)
SpentBy(ch) ==
    IF ch = <<>> THEN {}
    ELSE {ch[1].inputs[k] : k \in 1..Len(ch[1].inputs)} \cup SpentBy(Tail(ch))

\* the ledger takes a transaction only if every input of it is unspent
LedgerAccepts(t, ch) == \A k \in 1..Len(t.inputs) : t.inputs[k] \notin SpentBy(ch)

\* the identifier submit() resolves with for the transaction of flow f
TxId(f) == <<"tx", f>>

VARIABLES
    utxos,      \* ledger: the outputs ever placed at the script address
    chain,      \* ledger: the transactions accepted so far, [id, inputs]
    lucid,      \* the lucid instance of the context, 0 = not initialised
    scanPc,     \* per scan started: "querying", "responded", "done", "queryFailed", "faulted"
    scanResp,   \* per scan started: what getUtxo resolved with
    scanOut,    \* per scan started: the value it passed to setNfts
    nfts,       \* useState nfts
    txHash,     \* useState txHash, <<>> is ""
    pc,         \* per buyNFT call: "building", "signing", "submitting", "done", "failed", "returned"
    sel,        \* per call: the argument nft
    tx,         \* per call: <<tx>>, the transaction handed to complete()
    log,        \* per call: the stages begun and how each ended
    reason,     \* per call: <<error>> the catch block got
    outcome,    \* per call: how the promise buyNFT returned settled
    overlap     \* every call so far began while the calls before it were all in flight

scanVars == <<scanPc, scanResp, scanOut>>
flowVars == <<pc, sel, tx, log, reason, outcome, overlap>>
vars == <<utxos, chain, lucid, scanVars, nfts, txHash, flowVars>>

Scans == DOMAIN scanPc
Flows == DOMAIN pc

Ledgers(n, datums) ==
    {[i \in 1..n |-> Output(i, ds[i])] : ds \in [1..n -> datums]}

\* the component is mounted, lucid is not initialised yet
Mounted ==
    /\ chain = <<>>
    /\ lucid = 0
    /\ scanPc = <<>>
    /\ scanResp = <<>>
    /\ scanOut = <<>>
    /\ nfts = <<>>
    /\ txHash = <<>>
    /\ pc = <<>>
    /\ sel = <<>>
    /\ tx = <<>>
    /\ log = <<>>
    /\ reason = <<>>
    /\ outcome = <<>>
    /\ overlap = TRUE

Init == utxos \in Ledgers(NumOutputs, ListedDatums) /\ Mounted

InitScan == utxos \in Ledgers(ScanOutputs, DatumChoices) /\ Mounted

(* --------------------------- the scan effect --------------------------- *)
\* lines 31-37, 59-60: lucid changes to a new instance, the effect runs and
\* getNftFromMarketplace sends its query
LucidChange(maxScans) ==
    /\ Len(scanPc) < maxScans
    /\ lucid' = Len(scanPc) + 1
    /\ scanPc' = Append(scanPc, "querying")
    /\ scanResp' = Append(scanResp, <<>>)
    /\ scanOut' = Append(scanOut, <<>>)
    /\ UNCHANGED <<utxos, chain, nfts, txHash, flowVars>>

\* lines 31-33: lucid changes to undefined, the effect runs and returns at once
LucidReset ==
    /\ lucid # 0
    /\ lucid' = 0
    /\ UNCHANGED <<utxos, chain, scanVars, nfts, txHash, flowVars>>

\* line 37: the ledger answers the query of scan s
ScanRespond(s) ==
    /\ scanPc[s] = "querying"
    /\ scanPc' = [scanPc EXCEPT ![s] = "responded"]
    /\ scanResp' = [scanResp EXCEPT ![s] = UnspentAt(utxos, SpentBy(chain))]
    /\ UNCHANGED <<utxos, chain, lucid, scanOut, nfts, txHash, flowVars>>

\* line 37: getUtxo rejects; nothing catches it, the scan ends there
ScanQueryFail(s) ==
    /\ scanPc[s] = "querying"
    /\ scanPc' = [scanPc EXCEPT ![s] = "queryFailed"]
    /\ UNCHANGED <<utxos, chain, lucid, scanResp, scanOut, nfts, txHash, flowVars>>

\* lines 37-56: the await resumes, the outputs are decoded and stored
ScanComplete(s) ==
    /\ scanPc[s] = "responded"
    /\ LET mapped == MapDecode(scanResp[s])
       IN  IF Escapes(mapped)
           THEN /\ scanPc' = [scanPc EXCEPT ![s] = "faulted"]
                /\ UNCHANGED <<scanOut, nfts>>
           ELSE /\ scanPc' = [scanPc EXCEPT ![s] = "done"]
                /\ scanOut' = [scanOut EXCEPT ![s] = FilterBoolean(mapped)]
                /\ nfts' = FilterBoolean(mapped)
    /\ UNCHANGED <<utxos, chain, lucid, scanResp, txHash, flowVars>>

(* ------------------------------- buyNFT -------------------------------- *)
Pending == [kind |-> "pending", reason |-> <<>>]
\* the async function returns undefined
Resolved == [kind |-> "resolved", reason |-> <<>>]

\* the calls that await complete(), sign() or submit()
InFlight == {f \in Flows : pc[f] \in {"building", "signing", "submitting"}}

\* lines 99-101: the catch block logs the error; the promise of buyNFT resolves
Catch(f, stage, err) ==
    /\ pc' = [pc EXCEPT ![f] = "failed"]
    /\ log' = [log EXCEPT ![f] = Append(@, stage)]
    /\ reason' = [reason EXCEPT ![f] = <<err>>]
    /\ outcome' = [outcome EXCEPT ![f] = Resolved]

\* lines 136-138, 64-67: Buy Now is clicked while lucid is undefined
BuyNoLucid(i, maxFlows) ==
    /\ Len(pc) < maxFlows
    /\ lucid = 0
    /\ pc' = Append(pc, "returned")
    /\ sel' = Append(sel, nfts[i])
    /\ tx' = Append(tx, <<>>)
    /\ log' = Append(log, <<>>)
    /\ reason' = Append(reason, <<>>)
    /\ outcome' = Append(outcome, Resolved)
    /\ overlap' = (overlap /\ InFlight = Flows)
    /\ UNCHANGED <<utxos, chain, lucid, scanVars, nfts, txHash>>

\* lines 136-138, 62-92: Buy Now is clicked, the transaction is put together
\* and complete() is called
BuyStart(i, maxFlows) ==
    /\ Len(pc) < maxFlows
    /\ lucid # 0
    /\ pc' = Append(pc, "building")
    /\ sel' = Append(sel, nfts[i])
    /\ tx' = Append(tx, <<BuyTx(nfts[i])>>)
    /\ log' = Append(log, <<"Build">>)
    /\ reason' = Append(reason, <<>>)
    /\ outcome' = Append(outcome, Pending)
    /\ overlap' = (overlap /\ InFlight = Flows)
    /\ UNCHANGED <<utxos, chain, lucid, scanVars, nfts, txHash>>

\* lines 92-94: complete() resolves, sign().complete() is called
BuildOk(f) ==
    /\ pc[f] = "building"
    /\ pc' = [pc EXCEPT ![f] = "signing"]
    /\ log' = [log EXCEPT ![f] = @ \o <<"BuildOk", "Sign">>]
    /\ UNCHANGED <<utxos, chain, lucid, scanVars, nfts, txHash, sel, tx, reason, outcome, overlap>>

\* a rejected complete() that is swallowed where it happens, so that the
\* handler goes on to sign
BuildFail_GoesOn(f) ==
    /\ pc[f] = "building"
    /\ pc' = [pc EXCEPT ![f] = "signing"]
    /\ log' = [log EXCEPT ![f] = @ \o <<"BuildFail", "Sign">>]
    /\ UNCHANGED <<utxos, chain, lucid, scanVars, nfts, txHash, sel, tx, reason, outcome, overlap>>

\* lines 92, 99-101: complete() rejects
BuildFail(f) ==
    /\ pc[f] = "building"
    /\ Catch(f, "BuildFail", "build error")
    /\ UNCHANGED <<utxos, chain, lucid, scanVars, nfts, txHash, sel, tx, overlap>>

\* lines 94-96: the wallet signs, submit() is called
SignOk(f) ==
    /\ pc[f] = "signing"
    /\ pc' = [pc EXCEPT ![f] = "submitting"]
    /\ log' = [log EXCEPT ![f] = @ \o <<"SignOk", "Submit">>]
    /\ UNCHANGED <<utxos, chain, lucid, scanVars, nfts, txHash, sel, tx, reason, outcome, overlap>>

\* lines 94, 99-101: the wallet refuses to sign
SignFail(f) ==
    /\ pc[f] = "signing"
    /\ Catch(f, "SignFail", "signing refused")
    /\ UNCHANGED <<utxos, chain, lucid, scanVars, nfts, txHash, sel, tx, overlap>>

\* submit() is not awaited: the handler records success whatever the ledger does
SubmitOk_NotAwaited(f) ==
    /\ pc[f] = "submitting"
    /\ chain' = IF LedgerAccepts(tx[f][1], chain)
                THEN Append(chain, [id |-> TxId(f), inputs |-> tx[f][1].inputs])
                ELSE chain
    /\ txHash' = TxId(f)
    /\ pc' = [pc EXCEPT ![f] = "done"]
    /\ log' = [log EXCEPT ![f] = Append(@, "SubmitOk")]
    /\ outcome' = [outcome EXCEPT ![f] = Resolved]
    /\ UNCHANGED <<utxos, lucid, scanVars, nfts, sel, tx, reason, overlap>>

\* lines 96-98: the ledger takes the transaction, submit() resolves with its
\* identifier and setTxhash stores it
SubmitOk(f) ==
    /\ pc[f] = "submitting"
    /\ LedgerAccepts(tx[f][1], chain)
    /\ chain' = Append(chain, [id |-> TxId(f), inputs |-> tx[f][1].inputs])
    /\ txHash' = TxId(f)
    /\ pc' = [pc EXCEPT ![f] = "done"]
    /\ log' = [log EXCEPT ![f] = Append(@, "SubmitOk")]
    /\ outcome' = [outcome EXCEPT ![f] = Resolved]
    /\ UNCHANGED <<utxos, lucid, scanVars, nfts, sel, tx, reason, overlap>>

\* the catch block stores the identifier of the transaction it tried
SubmitFail_SetsHash(f) ==
    /\ pc[f] = "submitting"
    /\ \E err \in {"already spent", "rejected"} :
         /\ (err = "already spent") <=> ~LedgerAccepts(tx[f][1], chain)
         /\ Catch(f, "SubmitFail", err)
    /\ txHash' = TxId(f)
    /\ UNCHANGED <<utxos, chain, lucid, scanVars, nfts, sel, tx, overlap>>

\* lines 96, 99-101: submit() rejects: an input is spent already, or the
\* validator or the network turns the transaction down
SubmitFail(f) ==
    /\ pc[f] = "submitting"
    /\ \E err \in {"already spent", "rejected"} :
         /\ (err = "already spent") <=> ~LedgerAccepts(tx[f][1], chain)
         /\ Catch(f, "SubmitFail", err)
    /\ UNCHANGED <<utxos, chain, lucid, scanVars, nfts, txHash, sel, tx, overlap>>

\* the steps of the calls in flight
FlowStep ==
    \/ \E f \in Flows : BuildOk(f)
    \/ \E f \in Flows : BuildFail(f)
    \/ \E f \in Flows : SignOk(f)
    \/ \E f \in Flows : SignFail(f)
    \/ \E f \in Flows : SubmitOk(f)
    \/ \E f \in Flows : SubmitFail(f)

\* the steps of the scans in flight
ScanStep ==
    \/ \E s \in Scans : ScanRespond(s)
    \/ \E s \in Scans : ScanQueryFail(s)
    \/ \E s \in Scans : ScanComplete(s)

Next ==
    \/ LucidChange(MaxScans)
    \/ LucidReset
    \/ ScanStep
    \/ \E i \in 1..Len(nfts) : BuyNoLucid(i, MaxFlows)
    \/ \E i \in 1..Len(nfts) : BuyStart(i, MaxFlows)
    \/ FlowStep

Spec == Init /\ [][Next]_vars

\* the scan effect alone, over three outputs
NextScan ==
    \/ LucidChange(MaxScans)
    \/ LucidReset
    \/ ScanStep

SpecScan == InitScan /\ [][NextScan]_vars

\* several starts of the scan effect around one purchase
NextRace ==
    \/ LucidChange(RaceScans)
    \/ LucidReset
    \/ ScanStep
    \/ \E i \in 1..Len(nfts) : BuyNoLucid(i, RaceFlows)
    \/ \E i \in 1..Len(nfts) : BuyStart(i, RaceFlows)
    \/ FlowStep

SpecRace == Init /\ [][NextRace]_vars

(* ------------------------ what the claims are about -------------------- *)
\* line 74: the marketplace's share is one hundredth, 100 basis points
FixedFeeBps == 100

Has(l, e) == \E k \in 1..Len(l) : l[k] = e

\* the lovelace the outputs of t pay to addr
RECURSIVE PaidSeq(_, _)
PaidSeq(outs, addr) ==
    IF outs = <<>> THEN 0
    ELSE (IF outs[1].address = addr THEN outs[1].lovelace ELSE 0)
            + PaidSeq(Tail(outs), addr)
Paid(t, addr) == PaidSeq(t.outputs, addr)

SellerAddressOf(nft) == <<"addr_test", nft.seller>>
Subunits(price) == price * 10^6
\* floor(price * 10^6 * rate / 10000); 10^6 is a multiple of 10000, so the
\* division is done first to stay within 32 bits
FeeAtRate(price, rate) == (Subunits(price) \div 10000) * rate
FeeRates == {0, 100, 250, 10000}

\* the calls that assembled a transaction for a listing of positive price
Assembled == {f \in Flows : tx[f] # <<>>}
Priced == {f \in Assembled : sel[f].price > 0}
Ended(f) == pc[f] \in {"done", "failed"}
SameOutput(f, g) ==
    sel[f].txHash = sel[g].txHash /\ sel[f].outputIndex = sel[g].outputIndex

C2_FeeAtEveryRate ==
    \A f \in Priced : \A rate \in FeeRates :
        Paid(tx[f][1], markerAddress) = FeeAtRate(sel[f].price, rate)

\* C2 amended: for every price > 0 the marketplace's output is
\* floor(price * 10^6 * 100 / 10000), the formula at the one rate of 100 basis
\* points that the code has; price 100 gives 1,000,000
C2_FeeAtFixedRate ==
    \A f \in Priced :
        /\ Paid(tx[f][1], markerAddress) = FeeAtRate(sel[f].price, FixedFeeBps)
        /\ sel[f].price = 100 => Paid(tx[f][1], markerAddress) = 1000000

C2_Witness ==
    \E f \in Priced : sel[f].price = 100 /\ Paid(tx[f][1], markerAddress) = 1000000

\* C3 as stated: for a listing whose price is zero or negative no transaction
\* is constructed, signed or submitted
C3_NoSaleAtNonPositivePrice ==
    \A f \in Flows : sel[f].price <= 0 => tx[f] = <<>> /\ ~Has(log[f], "Build")

\* C4: a scan never ends in a fault of its own, and the listings it stores
\* are the outputs of the answer whose datum decodes, each once, and no other
C4_ScanKeepsExactlyDecodable ==
    \A s \in Scans :
        /\ scanPc[s] # "faulted"
        /\ scanPc[s] = "done" =>
            LET R == scanResp[s]
                L == scanOut[s]
                good == {k \in 1..Len(R) : Decodes(R[k].datum)}
            IN  /\ Len(L) = Cardinality(good)
                /\ \A k \in good :
                     Cardinality({j \in 1..Len(L) :
                        <<L[j].txHash, L[j].outputIndex>> = Ref(R[k])}) = 1
                /\ \A j \in 1..Len(L) :
                     \E k \in good :
                        /\ <<L[j].txHash, L[j].outputIndex>> = Ref(R[k])
                        /\ L[j].price = R[k].datum.fields[4].i

C4_Witness ==
    \E s \in Scans :
        /\ scanPc[s] = "done"
        /\ Len(scanResp[s]) = 3
        /\ Cardinality({k \in 1..3 : scanResp[s][k].datum = ForeignDatum}) = 1
        /\ Cardinality({k \in 1..3 : Decodes(scanResp[s][k].datum)}) = 2
        /\ Len(scanOut[s]) = 2
        /\ nfts = scanOut[s]

\* C5: in one call Build, Sign and Submit begin in that order, each at most
\* once; Sign begins only right after Build ended well, Submit only right
\* after Sign ended well, and nothing begins after a stage failed
C5_StagesInOrder ==
    \A f \in Flows : \A k \in 1..Len(log[f]) :
        LET e == log[f][k]
            prev == IF k = 1 THEN "" ELSE log[f][k - 1]
        IN  /\ e = "Build" => k = 1
            /\ e = "Sign" => prev = "BuildOk"
            /\ e = "Submit" => prev = "SignOk"
            /\ e \in {"BuildOk", "BuildFail"} => prev = "Build"
            /\ e \in {"SignOk", "SignFail"} => prev = "Sign"
            /\ e \in {"SubmitOk", "SubmitFail"} => prev = "Submit"
            /\ e \in {"BuildFail", "SignFail", "SubmitFail", "SubmitOk"} => k = Len(log[f])
            /\ \A j \in 1..(k - 1) : log[f][j] # e

C5_Witness ==
    \E f, g \in Flows :
        /\ log[f] = <<"Build", "BuildOk", "Sign", "SignOk", "Submit", "SubmitOk">>
        /\ log[g] = <<"Build", "BuildOk", "Sign", "SignFail">>

\* C6 as stated: of two concurrent calls on the same output that both
\* submitted, exactly one succeeds and the other fails as already spent
C6_ExactlyOneSucceeds ==
    \A f, g \in Flows :
        (/\ f < g
         /\ overlap
         /\ SameOutput(f, g)
         /\ Has(log[f], "Submit") /\ Has(log[g], "Submit")
         /\ Ended(f) /\ Ended(g))
        => \/ pc[f] = "done" /\ pc[g] = "failed" /\ reason[g] = <<"already spent">>
           \/ pc[g] = "done" /\ pc[f] = "failed" /\ reason[f] = <<"already spent">>

\* C6 amended: of the calls on one output at most one succeeds and the
\* ledger consumes the output at most once, by the transaction of the call
\* that succeeded; the other call fails, and both may fail
C6_AtMostOneSucceeds ==
    /\ \A f, g \in Flows :
         f # g /\ SameOutput(f, g) => ~(pc[f] = "done" /\ pc[g] = "done")
    /\ \A j, k \in 1..Len(chain) :
         j # k => \A a \in 1..Len(chain[j].inputs), b \in 1..Len(chain[k].inputs) :
                    chain[j].inputs[a] # chain[k].inputs[b]
    /\ \A f \in Flows :
         pc[f] = "done" <=> \E k \in 1..Len(chain) : chain[k].id = TxId(f)

C6_Witness ==
    \E f, g \in Flows :
        /\ f # g
        /\ overlap
        /\ SameOutput(f, g)
        /\ pc[f] = "done"
        /\ reason[g] = <<"already spent">>

\* C7 as stated: a call that failed at build, sign or submit settles as a
\* failure that carries the reason
C7_FailurePropagated ==
    \A f \in Flows :
        pc[f] = "failed" => outcome[f] = [kind |-> "rejected", reason |-> reason[f]]

\* C8: every transaction buyNFT puts together has the selected listing's
\* output as its one input and carries the redeemer and the validator
C8_InputRedeemerValidator ==
    \A f \in Assembled :
        /\ tx[f][1].inputs = << <<sel[f].txHash, sel[f].outputIndex>> >>
        /\ tx[f][1].redeemer = DataVoid
        /\ tx[f][1].validator = getValidator
        /\ tx[f][1].validator # ""

C8_Witness == \E f \in Assembled : pc[f] = "signing" /\ Len(tx[f][1].inputs) = 1

\* C9: txHash changes only in the step in which a submission succeeds and
\* then holds the identifier the ledger recorded; a step in which a call
\* fails or returns for want of lucid changes neither txHash nor nfts
C9_TxHashFrame ==
    [][/\ txHash' # txHash =>
            /\ \E f \in Flows : pc[f] = "submitting" /\ pc'[f] = "done"
            /\ Len(chain') = Len(chain) + 1
            /\ txHash' = chain'[Len(chain')].id
       /\ \A f \in DOMAIN pc' :
            (/\ pc'[f] \in {"failed", "returned"}
             /\ (f \in Flows => pc[f] # pc'[f]))
            => txHash' = txHash /\ nfts' = nfts]_vars

C9_Witness ==
    \E f, g \in Flows :
        /\ pc[f] = "done"
        /\ pc[g] \in {"failed", "returned"}
        /\ f < g
        /\ txHash = TxId(f)

\* C10 as stated: once every scan has finished, nfts is what the scan
\* started last stored
C10_LastStartedWins ==
    (/\ Scans # {}
     /\ \A s \in Scans : scanPc[s] \in {"done", "queryFailed", "faulted"}
     /\ scanPc[Len(scanPc)] = "done")
    => nfts = scanOut[Len(scanPc)]
====
